---- MODULE Spec2Model ----
(***************************************************************************)
(* Model of the AI travel assistant backend (src/server.py): the chat,    *)
(* image, chat-history and status handlers running as coroutines on one   *)
(* event loop over a document store.                                      *)
(*                                                                         *)
(* Conventions                                                             *)
(*  - A Python str is a sequence of text tokens; "" is <<>>, an f-string   *)
(*    is the concatenation of its pieces, str(int) is its decimal digits.  *)
(*  - An Optional[...] field is None == <<>> or Some(v) == <<v>>.          *)
(*  - Each awaited store call is one step (the store applies it and the    *)
(*    coroutine resumes); the OpenAI client is the synchronous one, so a   *)
(*    handler holds the event loop from the step that resumed it until the *)
(*    gateway call has returned (variable running).                        *)
(*  - uuid4() returns a value never returned before; datetime.now() reads  *)
(*    a clock that has advanced since the previous read.                   *)
(*  - A store call that raises has not written.                            *)
(***************************************************************************)
EXTENDS Integers, Sequences, FiniteSets, TLC

VARIABLES
    store,          \* db.chat_messages, in insertion order
    status_checks,  \* db.status_checks, in insertion order
    req,            \* the requests, by arrival number: handler position and locals
    arrived,        \* number of requests that have arrived
    running,        \* request holding the event loop in synchronous code, 0 if none
    uuidCount,      \* number of uuid4() values drawn
    now,            \* next reading of the clock
    log             \* logger.error lines

vars == <<store, status_checks, req, arrived, running, uuidCount, now, log>>

(* ------------------------------ bounds -------------------------------- *)

\* requests that arrive in one run
MaxReq == 2

\* number of turns session "s1" holds when the server starts
PreloadSizes == {0, 4}

Requests == 1..MaxReq

(* --------------------------- program constants ------------------------ *)

ContextLimit == 5
HistoryLimit == 100
StatusLimit == 1000

(* ------------------------------ values -------------------------------- *)

None == <<>>
Some(v) == <<v>>

EmptyStr == <<>>

Min(a, b) == IF a <= b THEN a ELSE b

Digits == <<"0", "1", "2", "3", "4", "5", "6", "7", "8", "9">>

\* str(n) for n >= 0
RECURSIVE IntToStr(_)
IntToStr(n) ==
    IF n < 10 THEN <<Digits[n + 1]>>
    ELSE Append(IntToStr(n \div 10), Digits[(n % 10) + 1])

\* str(uuid.uuid4()) for the n-th value drawn
uuid4(n) == <<"uuid-">> \o IntToStr(n)

\* Python truthiness of an Optional[str] / Optional[int]
TruthyStr(o) == o # None /\ o[1] # EmptyStr
TruthyInt(o) == o # None /\ o[1] # 0

\* Python's `o or d`
OrStr(o, d) == IF TruthyStr(o) THEN o[1] ELSE d
OrInt(o, d) == IF TruthyInt(o) THEN o[1] ELSE d

\* whether sub occurs in s (both strings)
Contains(s, sub) ==
    \E i \in 0..(Len(s) - Len(sub)) : SubSeq(s, i + 1, i + Len(sub)) = sub

(* --------------------------- the models (pydantic) -------------------- *)

\* ChatMessage(session_id, message, sender), id and timestamp from the defaults
ChatMessage(n, sid, msg, sender, ts) ==
    [id |-> uuid4(n), session_id |-> sid, message |-> msg,
     sender |-> sender, timestamp |-> ts]

\* StatusCheck(client_name)
StatusCheck(n, name, ts) ==
    [id |-> uuid4(n), client_name |-> name, timestamp |-> ts]

\* ChatRequest: message is required and a str; nothing requires it non-empty
ChatRequest_valid(body) == body.message # None

\* ImageRequest: prompt and session_id are required and str
ImageRequest_valid(body) == body.prompt # None /\ body.session_id # None

(* ------------------------------ the store ----------------------------- *)

\* find({"session_id": sid})
find_mut(coll, sid) == coll
find(coll, sid) == SelectSeq(coll, LAMBDA t : t.session_id = sid)

IsSortedByTimestamp(s) ==
    \A i \in 1..(Len(s) - 1) : s[i].timestamp <= s[i + 1].timestamp

\* .sort("timestamp", 1): ascending, documents of equal timestamp in natural
\* order. A sequence already in order is its own sort; otherwise each document
\* goes to the position its rank gives.
sort_timestamp(s) ==
    IF IsSortedByTimestamp(s) THEN s
    ELSE LET n == Len(s)
             rank == [j \in 1..n |->
                        Cardinality({ i \in 1..n :
                            \/ s[i].timestamp < s[j].timestamp
                            \/ s[i].timestamp = s[j].timestamp /\ i <= j })]
         IN  [k \in 1..n |-> s[CHOOSE j \in 1..n : rank[j] = k]]

\* .to_list(length=n): the first n documents of the cursor
to_list(s, n) == SubSeq(s, 1, Min(n, Len(s)))

\* insert_one(doc)
insert_one_mut(coll, doc) == coll
insert_one(coll, doc) == Append(coll, doc)

(* --------------------------- context assembly ------------------------- *)

SystemInstruction ==
    [role |-> "system",
     content |-> <<"You are a helpful travel assistant. Always give unique, personalized plans.">>]

\* [{"role": msg["sender"], "content": msg["message"]} for msg in history]
history_messages(history) ==
    [i \in 1..Len(history) |->
        [role |-> history[i].sender, content |-> history[i].message]]

\* the condition of `if request.location or request.duration or ...`
has_trip_context_mut(body) ==
    TRUE
has_trip_context(body) ==
    \/ TruthyStr(body.location)
    \/ TruthyStr(body.duration)
    \/ TruthyStr(body.budget)
    \/ TruthyInt(body.travelers)

NotSpecified == <<"not specified">>

\* the f-string of the trip details
trip_context_mut(body) ==
    <<"Trip details:">>
    \o <<"- Location: ">> \o OrStr(body.location, <<"None">>)
    \o <<"- Duration: ">> \o OrStr(body.duration, <<"None">>)
    \o <<"- Budget: ">> \o OrStr(body.budget, <<"None">>)
    \o <<"- Travelers: ">> \o IntToStr(OrInt(body.travelers, 1))
trip_context(body) ==
    <<"Trip details:">>
    \o <<"- Location: ">> \o OrStr(body.location, NotSpecified)
    \o <<"- Duration: ">> \o OrStr(body.duration, NotSpecified)
    \o <<"- Budget: ">> \o OrStr(body.budget, NotSpecified)
    \o <<"- Travelers: ">> \o IntToStr(OrInt(body.travelers, 1))

\* messages: the system instruction, the history, the optional trip context
assemble_messages(history, body) ==
    LET base == <<SystemInstruction>> \o history_messages(history)
    IN  IF has_trip_context(body)
        THEN Append(base, [role |-> "system", content |-> trip_context(body)])
        ELSE base

\* the history read of chat_with_ai
recent(coll, sid) == to_list(sort_timestamp(find(coll, sid)), ContextLimit)

\* the history read of get_chat_history
all_turns(coll, sid) == to_list(sort_timestamp(find(coll, sid)), HistoryLimit)

(* ------------------------------ inputs -------------------------------- *)

S1 == <<"s1">>
UserText == <<"Plan a trip to Paris for 5 days">>
ReplyText == <<"Here is your plan">>

\* the chat turns session "s1" holds at start: k turns of earlier exchanges
Preload(k) ==
    [i \in 1..k |->
        ChatMessage(i, S1,
                    IF i % 2 = 1 THEN UserText ELSE ReplyText,
                    IF i % 2 = 1 THEN "user" ELSE "assistant", i)]

NoTrip == [location |-> None, duration |-> None, budget |-> None, travelers |-> None]

\* trip fields as a client may send them: a present but empty location, a
\* present traveler count of 0, some fields set, all fields set
TripCases ==
    { [location |-> Some(EmptyStr), duration |-> None, budget |-> None, travelers |-> None],
      [location |-> None, duration |-> None, budget |-> None, travelers |-> Some(0)],
      [location |-> Some(<<"Paris, France">>), duration |-> None,
       budget |-> Some(EmptyStr), travelers |-> None],
      [location |-> Some(<<"Paris, France">>), duration |-> Some(<<"5 days">>),
       budget |-> Some(<<"$2000-3000">>), travelers |-> Some(2)] }

\* session ids the server has returned in a chat response
ReturnedSessionIds ==
    { req[q].resp.body.session_id :
        q \in { p \in Requests : req[p].kind = "chat" /\ req[p].pc = "Responded" } }

\* session_id values a client may send
SessionInputs == {None, Some(EmptyStr), Some(S1)} \cup { Some(s) : s \in ReturnedSessionIds }

\* the text the client sends with its r-th request
UserTextOf(r) == <<"Plan a trip to Paris, request ">> \o IntToStr(r)

ChatBody(m, s, t) ==
    [message |-> m, session_id |-> s, location |-> t.location,
     duration |-> t.duration, budget |-> t.budget, travelers |-> t.travelers]

\* the bodies of the r-th request: no message; the empty message with the empty
\* session id; a message with each session id; a message with each trip case
ChatBodies(r) ==
    {ChatBody(None, None, NoTrip), ChatBody(Some(EmptyStr), Some(EmptyStr), NoTrip)}
    \cup { ChatBody(Some(UserTextOf(r)), s, NoTrip) : s \in SessionInputs }
    \cup { ChatBody(Some(UserTextOf(r)), s, t) : s \in {None, Some(S1)}, t \in TripCases }

ImageBodies ==
    [prompt : {None, Some(EmptyStr), Some(<<"Paris Eiffel Tower beautiful sunset">>)},
     session_id : {None, Some(EmptyStr), Some(S1)}]

\* what chat.completions.create may do: raise, or return a completion
GatewayOutcomes ==
    { [raises |-> TRUE, choices |-> <<>>],
      [raises |-> FALSE, choices |-> <<>>],
      [raises |-> FALSE, choices |-> <<[content |-> None]>>],
      [raises |-> FALSE, choices |-> <<[content |-> Some(ReplyText)]>>] }

\* what images.generate may do
ImageOutcomes ==
    { [raises |-> TRUE, data |-> <<>>],
      [raises |-> FALSE, data |-> <<>>],
      [raises |-> FALSE, data |-> <<[b64_json |-> None]>>],
      [raises |-> FALSE, data |-> <<[b64_json |-> Some(<<"iVBORw0KGgo=">>)]>>] }

\* str(e) of the exceptions the handlers catch
StoreWriteError == <<"ServerSelectionTimeoutError: mongodb:27017 connection refused (insert)">>
StoreReadError == <<"ServerSelectionTimeoutError: mongodb:27017 connection refused (find)">>
GatewayError == <<"APIConnectionError: Connection error.">>
IndexError == <<"list index out of range">>
ValidationError == <<"1 validation error for ChatMessage message">>
ImageValidationError == <<"1 validation error for ImageResponse image_base64">>

(* ------------------------------ state --------------------------------- *)

NoResponse == [status |-> 0, detail |-> <<>>, body |-> <<>>]

IdleRequest ==
    [kind |-> "none", pc |-> "Idle", body |-> <<>>, session_id |-> <<>>,
     user_message_obj |-> None, history |-> <<>>, messages |-> <<>>,
     response |-> None, ai_message_obj |-> None, gw_calls |-> 0, failed_at |-> "", resp |-> NoResponse]

InitWith(k) ==
    /\ store = Preload(k)
    /\ status_checks = <<>>
    /\ req = [r \in Requests |-> IdleRequest]
    /\ arrived = 0
    /\ running = 0
    /\ uuidCount = k
    /\ now = k + 1
    /\ log = <<>>

Init == \E k \in PreloadSizes : InitWith(k)

\* a server started on a store whose session "s1" already fills a history page
InitLong == InitWith(HistoryLimit)

\* the next request to arrive is r, and the event loop is free to start it
Arrives(r) == r = arrived + 1 /\ r \in Requests /\ running = 0

\* FastAPI's answer to a body the model rejects
Response422 == [status |-> 422, detail |-> <<"value is not a valid string">>, body |-> <<>>]

(* ------------------------------ chat_with_ai -------------------------- *)

\* `request.session_id or str(uuid.uuid4())`: drawing a uuid only when needed
generates_session_id(body) == ~TruthyStr(body.session_id)

session_id_of_mut(body, n) == uuid4(n)
session_id_of(body, n) ==
    IF generates_session_id(body) THEN uuid4(n) ELSE body.session_id[1]

\* except Exception as e: log, then HTTPException(500, f"Chat processing failed: {str(e)}")
chat_error_detail(e) == <<"Chat processing failed: ">> \o e

chat_fails(r, e) ==
    /\ log' = Append(log, <<"Chat error: ">> \o e)
    /\ req' = [req EXCEPT ![r] =
                [@ EXCEPT !.pc = "Failed", !.failed_at = req[r].pc,
                          !.history = <<>>, !.messages = <<>>,
                          !.resp = [status |-> 500, detail |-> chat_error_detail(e),
                                    body |-> <<>>]]]

\* the request arrives; pydantic validates the body; lines 104-112 run up to
\* the awaited insert of the user turn
chat_receive(r, body) ==
    /\ Arrives(r)
    /\ arrived' = r
    /\ IF ~ChatRequest_valid(body)
       THEN /\ req' = [req EXCEPT ![r] =
                        [@ EXCEPT !.kind = "chat", !.pc = "Rejected", !.body = body,
                                  !.resp = Response422]]
            /\ UNCHANGED <<store, status_checks, running, uuidCount, now, log>>
       ELSE LET drawn == IF generates_session_id(body) THEN 1 ELSE 0
                sid == session_id_of(body, uuidCount + 1)
                obj == ChatMessage(uuidCount + drawn + 1, sid, body.message[1], "user", now)
            IN  /\ req' = [req EXCEPT ![r] =
                            [@ EXCEPT !.kind = "chat", !.pc = "ReceivedRequest",
                                      !.body = body, !.session_id = sid,
                                      !.user_message_obj = Some(obj)]]
                /\ uuidCount' = uuidCount + drawn + 1
                /\ now' = now + 1
                /\ UNCHANGED <<store, status_checks, running, log>>

\* await db.chat_messages.insert_one(user_message_obj.dict()) returns
chat_insert_user_mut(r) ==
    /\ running = 0
    /\ req[r].kind = "chat" /\ req[r].pc = "ReceivedRequest"
    /\ \A q \in Requests :
        (q < r /\ req[q].kind = "chat" /\ req[q].session_id = req[r].session_id) =>
            req[q].pc \in {"Rejected", "Responded", "Failed"}
    /\ store' = insert_one(store, req[r].user_message_obj[1])
    /\ req' = [req EXCEPT ![r].pc = "PersistedUserTurn"]
    /\ UNCHANGED <<status_checks, arrived, running, uuidCount, now, log>>
chat_insert_user_skip_mut(r) ==
    /\ running = 0
    /\ req[r].kind = "chat" /\ req[r].pc = "ReceivedRequest"
    /\ req' = [req EXCEPT ![r].pc = "PersistedUserTurn"]
    /\ UNCHANGED <<store, status_checks, arrived, running, uuidCount, now, log>>
chat_insert_user(r) ==
    /\ running = 0
    /\ req[r].kind = "chat" /\ req[r].pc = "ReceivedRequest"
    /\ store' = insert_one(store, req[r].user_message_obj[1])
    /\ req' = [req EXCEPT ![r].pc = "PersistedUserTurn"]
    /\ UNCHANGED <<status_checks, arrived, running, uuidCount, now, log>>

\* ... or raises
chat_insert_user_raises(r) ==
    /\ running = 0
    /\ req[r].kind = "chat" /\ req[r].pc = "ReceivedRequest"
    /\ chat_fails(r, StoreWriteError)
    /\ UNCHANGED <<store, status_checks, arrived, running, uuidCount, now>>

\* the awaited find returns; lines 119-136 assemble the messages
chat_read_history(r) ==
    /\ running = 0
    /\ req[r].kind = "chat" /\ req[r].pc = "PersistedUserTurn"
    /\ LET history == recent(store, req[r].session_id)
       IN  req' = [req EXCEPT ![r] =
                    [@ EXCEPT !.pc = "ContextAssembled", !.history = history,
                              !.messages = assemble_messages(history, req[r].body)]]
    /\ running' = r
    /\ UNCHANGED <<store, status_checks, arrived, uuidCount, now, log>>

\* ... or raises
chat_read_history_raises(r) ==
    /\ running = 0
    /\ req[r].kind = "chat" /\ req[r].pc = "PersistedUserTurn"
    /\ chat_fails(r, StoreReadError)
    /\ UNCHANGED <<store, status_checks, arrived, running, uuidCount, now>>

\* openai_client.chat.completions.create(...) is entered: a synchronous call
chat_call_gateway(r) ==
    /\ running = r
    /\ req[r].kind = "chat" /\ req[r].pc = "ContextAssembled"
    /\ req' = [req EXCEPT ![r].pc = "InGateway", ![r].gw_calls = @ + 1]
    /\ UNCHANGED <<store, status_checks, arrived, running, uuidCount, now, log>>

\* the call ends; lines 144-152 run up to the awaited insert of the reply
chat_gateway_returns_mut(r, out) ==
    /\ running = r
    /\ req[r].kind = "chat" /\ req[r].pc = "InGateway"
    /\ IF req[r].gw_calls < 2
       THEN /\ req' = [req EXCEPT ![r].pc = "ContextAssembled"]
            /\ UNCHANGED <<running, log>>
       ELSE running' = 0 /\ chat_fails(r, GatewayError)
    /\ UNCHANGED <<store, status_checks, arrived, uuidCount, now>>
chat_gateway_returns(r, out) ==
    /\ running = r
    /\ req[r].kind = "chat" /\ req[r].pc = "InGateway"
    /\ running' = 0
    /\ IF out.raises
       THEN chat_fails(r, GatewayError) /\ UNCHANGED <<uuidCount, now>>
       ELSE IF out.choices = <<>>
       THEN chat_fails(r, IndexError) /\ UNCHANGED <<uuidCount, now>>
       ELSE IF out.choices[1].content = None
       THEN chat_fails(r, ValidationError) /\ UNCHANGED <<uuidCount, now>>
       ELSE LET response == out.choices[1].content[1]
                obj == ChatMessage(uuidCount + 1, req[r].session_id, response,
                                   "assistant", now)
            IN  /\ req' = [req EXCEPT ![r] =
                            [@ EXCEPT !.pc = "GotCompletion",
                                      !.response = Some(response),
                                      !.ai_message_obj = Some(obj)]]
                /\ uuidCount' = uuidCount + 1
                /\ now' = now + 1
                /\ UNCHANGED log
    /\ UNCHANGED <<store, status_checks, arrived>>

\* await db.chat_messages.insert_one(ai_message_obj.dict()) returns
chat_insert_ai_mut(r) ==
    /\ running = 0
    /\ req[r].kind = "chat" /\ req[r].pc = "GotCompletion"
    /\ store' = [store EXCEPT ![Len(store)] = req[r].ai_message_obj[1]]
    /\ req' = [req EXCEPT ![r].pc = "PersistedAssistantTurn"]
    /\ UNCHANGED <<status_checks, arrived, running, uuidCount, now, log>>
chat_insert_ai(r) ==
    /\ running = 0
    /\ req[r].kind = "chat" /\ req[r].pc = "GotCompletion"
    /\ store' = insert_one(store, req[r].ai_message_obj[1])
    /\ req' = [req EXCEPT ![r].pc = "PersistedAssistantTurn"]
    /\ UNCHANGED <<status_checks, arrived, running, uuidCount, now, log>>

\* ... or raises
chat_insert_ai_raises_mut(r) ==
    /\ running = 0
    /\ req[r].kind = "chat" /\ req[r].pc = "GotCompletion"
    /\ chat_fails(r, StoreWriteError)
    /\ store' = insert_one(store, req[r].ai_message_obj[1])
    /\ UNCHANGED <<status_checks, arrived, running, uuidCount, now>>
chat_insert_ai_raises(r) ==
    /\ running = 0
    /\ req[r].kind = "chat" /\ req[r].pc = "GotCompletion"
    /\ chat_fails(r, StoreWriteError)
    /\ UNCHANGED <<store, status_checks, arrived, running, uuidCount, now>>

\* return ChatResponse(message=response, session_id=session_id)
chat_respond_mut(r) ==
    /\ running = 0
    /\ req[r].kind = "chat" /\ req[r].pc = "PersistedAssistantTurn"
    /\ req[r].response = None
    /\ UNCHANGED vars
chat_respond(r) ==
    /\ running = 0
    /\ req[r].kind = "chat" /\ req[r].pc = "PersistedAssistantTurn"
    /\ req' = [req EXCEPT ![r] =
                [@ EXCEPT !.pc = "Responded", !.history = <<>>, !.messages = <<>>,
                          !.resp = [status |-> 200, detail |-> <<>>,
                                    body |-> [message |-> req[r].response[1],
                                              session_id |-> req[r].session_id,
                                              image_url |-> None]]]]
    /\ UNCHANGED <<store, status_checks, arrived, running, uuidCount, now, log>>

(* --------------------------- generate_trip_image ---------------------- *)

\* the request arrives and is validated; images.generate(...) is entered: the
\* handler has no await, it holds the event loop until it returns
image_receive(r, body) ==
    /\ Arrives(r)
    /\ arrived' = r
    /\ IF ~ImageRequest_valid(body)
       THEN /\ req' = [req EXCEPT ![r] =
                        [@ EXCEPT !.kind = "image", !.pc = "Rejected", !.body = body,
                                  !.resp = Response422]]
            /\ UNCHANGED running
       ELSE /\ req' = [req EXCEPT ![r] =
                        [@ EXCEPT !.kind = "image", !.pc = "InGateway", !.body = body,
                                  !.gw_calls = @ + 1]]
            /\ running' = r
    /\ UNCHANGED <<store, status_checks, uuidCount, now, log>>

\* the call ends: ImageResponse, or the except branch
image_returns_mut(r, out) ==
    /\ running = r
    /\ req[r].kind = "image" /\ req[r].pc = "InGateway"
    /\ running' = 0
    /\ store' = insert_one(store, ChatMessage(uuidCount + 1, req[r].body.session_id[1],
                                              req[r].body.prompt[1], "user", now + 1))
    /\ uuidCount' = uuidCount + 1 /\ now' = now + 1
    /\ req' = [req EXCEPT ![r] =
                [@ EXCEPT !.pc = "Responded",
                          !.resp = [status |-> 200, detail |-> <<>>,
                                    body |-> [image_base64 |-> <<"b64">>,
                                              session_id |-> req[r].body.session_id[1]]]]]
    /\ UNCHANGED <<status_checks, arrived, log>>
image_returns(r, out) ==
    /\ running = r
    /\ req[r].kind = "image" /\ req[r].pc = "InGateway"
    /\ running' = 0
    /\ LET e == IF out.raises THEN GatewayError
                ELSE IF out.data = <<>> THEN IndexError
                ELSE IF out.data[1].b64_json = None THEN ImageValidationError
                ELSE <<>>
       IN  IF e # <<>>
           THEN /\ log' = Append(log, <<"Image generation error: ">> \o e)
                /\ req' = [req EXCEPT ![r] =
                            [@ EXCEPT !.pc = "Failed", !.failed_at = "InGateway",
                                      !.resp = [status |-> 500,
                                                detail |-> <<"Image generation failed: ">> \o e,
                                                body |-> <<>>]]]
           ELSE /\ req' = [req EXCEPT ![r] =
                            [@ EXCEPT !.pc = "Responded",
                                      !.resp = [status |-> 200, detail |-> <<>>,
                                                body |-> [image_base64 |-> out.data[1].b64_json[1],
                                                          session_id |-> req[r].body.session_id[1]]]]]
                /\ UNCHANGED log
    /\ UNCHANGED <<store, status_checks, arrived, uuidCount, now>>

(* ----------------------------- get_chat_history ----------------------- *)

\* session ids a client may ask the history of
HistoryInputs == {S1, <<"nonexistent">>} \cup ReturnedSessionIds

\* the whole handler: the awaited find and the response
get_chat_history_mut(r, sid) ==
    /\ Arrives(r)
    /\ arrived' = r
    /\ req' = [req EXCEPT ![r] =
                [@ EXCEPT !.kind = "history", !.pc = "Responded", !.session_id = sid,
                          !.resp = IF find(store, sid) = <<>>
                                   THEN [status |-> 404, detail |-> <<"Session not found">>,
                                         body |-> <<>>]
                                   ELSE [status |-> 200, detail |-> <<>>,
                                         body |-> all_turns(store, sid)]]]
    /\ UNCHANGED <<store, status_checks, running, uuidCount, now, log>>
get_chat_history(r, sid) ==
    /\ Arrives(r)
    /\ arrived' = r
    /\ req' = [req EXCEPT ![r] =
                [@ EXCEPT !.kind = "history", !.pc = "Responded", !.session_id = sid,
                          !.resp = [status |-> 200, detail |-> <<>>,
                                    body |-> all_turns(store, sid)]]]
    /\ UNCHANGED <<store, status_checks, running, uuidCount, now, log>>

\* ... or the find raises
get_chat_history_raises(r, sid) ==
    /\ Arrives(r)
    /\ arrived' = r
    /\ log' = Append(log, <<"Chat history error: ">> \o StoreReadError)
    /\ req' = [req EXCEPT ![r] =
                [@ EXCEPT !.kind = "history", !.pc = "Failed", !.session_id = sid,
                          !.failed_at = "Idle",
                          !.resp = [status |-> 500,
                                    detail |-> <<"Failed to retrieve chat history">>,
                                    body |-> <<>>]]]
    /\ UNCHANGED <<store, status_checks, running, uuidCount, now>>

(* ------------------------------- status ------------------------------- *)

ClientName == <<"test_client">>

\* create_status_check: the whole handler
create_status_check(r) ==
    /\ Arrives(r)
    /\ arrived' = r
    /\ LET status_obj == StatusCheck(uuidCount + 1, ClientName, now)
       IN  /\ status_checks' = insert_one(status_checks, status_obj)
           /\ req' = [req EXCEPT ![r] =
                        [@ EXCEPT !.kind = "status", !.pc = "Responded",
                                  !.resp = [status |-> 200, detail |-> <<>>,
                                            body |-> status_obj]]]
    /\ uuidCount' = uuidCount + 1
    /\ now' = now + 1
    /\ UNCHANGED <<store, running, log>>

\* the answer to an exception no handler catches
Response500 == [status |-> 500, detail |-> <<"Internal Server Error">>, body |-> <<>>]

\* ... or its insert raises: the handler has no except branch
create_status_check_raises(r) ==
    /\ Arrives(r)
    /\ arrived' = r
    /\ req' = [req EXCEPT ![r] =
                [@ EXCEPT !.kind = "status", !.pc = "Failed", !.failed_at = "Idle",
                          !.resp = Response500]]
    /\ uuidCount' = uuidCount + 1
    /\ now' = now + 1
    /\ UNCHANGED <<store, status_checks, running, log>>

\* get_status_checks: the whole handler
get_status_checks(r) ==
    /\ Arrives(r)
    /\ arrived' = r
    /\ req' = [req EXCEPT ![r] =
                [@ EXCEPT !.kind = "status", !.pc = "Responded",
                          !.resp = [status |-> 200, detail |-> <<>>,
                                    body |-> to_list(status_checks, StatusLimit)]]]
    /\ UNCHANGED <<store, status_checks, running, uuidCount, now, log>>

\* ... or its find raises
get_status_checks_raises(r) ==
    /\ Arrives(r)
    /\ arrived' = r
    /\ req' = [req EXCEPT ![r] =
                [@ EXCEPT !.kind = "status", !.pc = "Failed", !.failed_at = "Idle",
                          !.resp = Response500]]
    /\ UNCHANGED <<store, status_checks, running, uuidCount, now, log>>

(* --------------------------- the specification ------------------------ *)

Next ==
    \E r \in Requests :
        \/ \E body \in ChatBodies(r) : chat_receive(r, body)
        \/ chat_insert_user(r)
        \/ chat_insert_user_raises(r)
        \/ chat_read_history(r)
        \/ chat_read_history_raises(r)
        \/ chat_call_gateway(r)
        \/ \E out \in GatewayOutcomes : chat_gateway_returns(r, out)
        \/ chat_insert_ai(r)
        \/ chat_insert_ai_raises(r)
        \/ chat_respond(r)
        \/ \E body \in ImageBodies : image_receive(r, body)
        \/ \E out \in ImageOutcomes : image_returns(r, out)
        \/ \E sid \in HistoryInputs : get_chat_history(r, sid)
        \/ \E sid \in HistoryInputs : get_chat_history_raises(r, sid)
        \/ create_status_check(r)
        \/ create_status_check_raises(r)
        \/ get_status_checks(r)
        \/ get_status_checks_raises(r)

Spec == Init /\ [][Next]_vars

\* a step of the handler of request r after its arrival: the return or the raise
\* of the store call or gateway call it waits for, or the code behind it
request_step(r) ==
    \/ chat_insert_user(r) \/ chat_insert_user_raises(r)
    \/ chat_read_history(r) \/ chat_read_history_raises(r)
    \/ chat_call_gateway(r)
    \/ \E out \in GatewayOutcomes : chat_gateway_returns(r, out)
    \/ chat_insert_ai(r) \/ chat_insert_ai_raises(r)
    \/ chat_respond(r)
    \/ \E out \in ImageOutcomes : image_returns(r, out)

\* every call a handler waits for eventually returns or raises, and the event
\* loop resumes every coroutine that is ready
SpecFair == Init /\ [][Next]_vars /\ \A r \in Requests : WF_vars(request_step(r))

SpecLong == InitLong /\ [][Next]_vars

(* ------------------------------ the claims ---------------------------- *)

ChatRequests == { r \in Requests : req[r].kind = "chat" }

\* the store holds the document
Stored(doc) == \E i \in 1..Len(store) : store[i] = doc

\* position in the store of the document, 0 when it is not stored
StoredAt(doc) ==
    IF Stored(doc) THEN CHOOSE i \in 1..Len(store) : store[i] = doc ELSE 0

\* the last n elements of a sequence
LastN(s, n) == SubSeq(s, Len(s) - Min(n, Len(s)) + 1, Len(s))

\* the prompt of r is assembled and not yet answered
HoldsContext(r) ==
    req[r].kind = "chat" /\ req[r].pc \in {"ContextAssembled", "InGateway"}

\* C1: the prompt handed to the Completion Gateway contains the request's own
\* just-persisted user message among its history entries, and no separate
\* current-message entry is appended.
C1_OwnMessageInContext ==
    \A r \in Requests :
        HoldsContext(r) =>
            /\ \E i \in 1..Len(req[r].history) :
                /\ req[r].history[i] = req[r].user_message_obj[1]
                /\ req[r].messages[i + 1] =
                       [role |-> "user", content |-> req[r].body.message[1]]
            /\ Len(req[r].messages) \in {Len(req[r].history) + 1, Len(req[r].history) + 2}

\* C2: the history part of the context is the 5 most recent turns stored for
\* the session at the time of the read (all of them when fewer are stored),
\* oldest first: turns k-4..k of the timestamp-ordered sequence.
C2_ContextIsMostRecent ==
    \A r \in Requests :
        HoldsContext(r) =>
            req[r].history =
                LastN(sort_timestamp(find(store, req[r].session_id)), ContextLimit)

\* C3: within one chat request the steps occur in the fixed order persist user
\* turn, assemble context, call the gateway, persist assistant turn, respond:
\* the context is never assembled and the gateway never called before the user
\* turn is stored, the assistant turn is never stored before the gateway has
\* answered, and a success response is never returned before the assistant
\* turn is stored.
C3_StepOrder ==
    \A r \in ChatRequests :
        LET pc == req[r].pc
            userStored == req[r].user_message_obj # None /\ Stored(req[r].user_message_obj[1])
            aiStored == req[r].ai_message_obj # None /\ Stored(req[r].ai_message_obj[1])
        IN  /\ pc = "ReceivedRequest" => ~userStored /\ req[r].messages = <<>>
            /\ pc \in {"PersistedUserTurn", "ContextAssembled", "InGateway", "GotCompletion",
                       "PersistedAssistantTurn", "Responded"} => userStored
            /\ req[r].messages # <<>> => userStored
            /\ req[r].gw_calls > 0 => userStored
            /\ pc \in {"ReceivedRequest", "PersistedUserTurn", "ContextAssembled"}
                   => req[r].gw_calls = 0
            /\ pc \in {"ReceivedRequest", "PersistedUserTurn", "ContextAssembled", "InGateway"}
                   => req[r].response = None /\ req[r].ai_message_obj = None
            /\ pc = "GotCompletion" => req[r].response # None /\ ~aiStored
            /\ aiStored => /\ req[r].gw_calls > 0
                           /\ StoredAt(req[r].user_message_obj[1])
                                < StoredAt(req[r].ai_message_obj[1])
            /\ pc \in {"PersistedAssistantTurn", "Responded"} => aiStored
            /\ req[r].resp.status = 200 => pc = "Responded" /\ aiStored
            /\ pc = "PersistedAssistantTurn" => req[r].resp = NoResponse

\* a chat request answered with success, both of its turns stored
C3_Witness ==
    \E r \in ChatRequests :
        /\ req[r].pc = "Responded" /\ req[r].resp.status = 200
        /\ Stored(req[r].user_message_obj[1]) /\ Stored(req[r].ai_message_obj[1])

\* C4: after a successful chat request on a session, whatever number of turns
\* the session held before and with no other request on it in between, GET
\* chat-history returns a list whose last two entries are that request's user
\* turn followed by its assistant turn. (The step is the history handler's; the
\* chat request c has responded and is the only chat request on the session.)
C4_HistoryEndsWithExchange ==
    [][\A h \in Requests, c \in Requests :
        ( /\ req[h].pc = "Idle" /\ req'[h].kind = "history" /\ req'[h].resp.status = 200
          /\ req[c].kind = "chat" /\ req[c].pc = "Responded"
          /\ req[c].session_id = req'[h].session_id
          /\ \A q \in Requests \ {c} :
                ~(req[q].kind = "chat" /\ req[q].session_id = req[c].session_id) )
        => LET turns == req'[h].resp.body
           IN  /\ Len(turns) >= 2
               /\ turns[Len(turns) - 1] = req[c].user_message_obj[1]
               /\ turns[Len(turns)] = req[c].ai_message_obj[1]]_vars

\* C5: a request whose required string field is empty is rejected with 422
\* before any processing: a chat request with message "" persists no turn, an
\* image request with prompt "" and session_id "" never reaches the provider.
C5_EmptyFieldRejected ==
    \A r \in Requests :
        /\ (req[r].kind = "chat" /\ req[r].body.message = Some(EmptyStr))
            => /\ req[r].pc = "Rejected" /\ req[r].resp.status = 422
               /\ req[r].user_message_obj = None
        /\ (req[r].kind = "image" /\ req[r].body.prompt = Some(EmptyStr)
                /\ req[r].body.session_id = Some(EmptyStr))
            => /\ req[r].pc = "Rejected" /\ req[r].resp.status = 422
               /\ req[r].gw_calls = 0

\* str(e) of every failure a chat request can meet
ChatFailureDetails ==
    {StoreWriteError, StoreReadError, GatewayError, IndexError, ValidationError}

\* C6: whatever step of a chat request fails, the caller receives the same
\* single generic 500 message, which does not contain the internal failure
\* detail; the detail goes to the log only.
C6_GenericFailureMessage ==
    \A r \in ChatRequests :
        req[r].pc = "Failed" =>
            /\ req[r].resp.status = 500
            /\ \A q \in ChatRequests :
                req[q].pc = "Failed" => req[q].resp.detail = req[r].resp.detail
            /\ \A e \in ChatFailureDetails : ~Contains(req[r].resp.detail, e)
            /\ \E i \in 1..Len(log), e \in ChatFailureDetails : Contains(log[i], e)

\* the documents a chat request has built
DocsOf(r) ==
    { d \in {req[r].user_message_obj, req[r].ai_message_obj} : d # None }

\* positions in the store of the turns request r wrote
TurnsOf(r) == { i \in 1..Len(store) : Some(store[i]) \in DocsOf(r) }

\* positions in the store of the turns no request of this run wrote
EarlierTurns == { i \in 1..Len(store) : \A r \in Requests : i \notin TurnsOf(r) }

\* C7: a chat request that fails never rolls back. If it failed before its user
\* turn was stored it has left no turn in the store; if it failed later (history
\* read, gateway call, assistant write) it has left exactly its user turn and no
\* assistant turn. The turns stored before the run are all still there.
C7_NoRollback ==
    /\ \A r \in ChatRequests :
        req[r].pc = "Failed" =>
            IF req[r].failed_at = "ReceivedRequest"
            THEN TurnsOf(r) = {}
            ELSE /\ Cardinality(TurnsOf(r)) = 1
                 /\ \A i \in TurnsOf(r) : store[i] = req[r].user_message_obj[1]
                 /\ req[r].ai_message_obj # None => ~Stored(req[r].ai_message_obj[1])
    /\ \E k \in PreloadSizes \cup {HistoryLimit} :
        /\ EarlierTurns = 1..k
        /\ SubSeq(store, 1, k) = Preload(k)

\* a request failed at the assistant write, after another request's turn was
\* stored behind its own user turn
C7_Witness ==
    \E r \in ChatRequests :
        /\ req[r].pc = "Failed" /\ req[r].failed_at = "GotCompletion"
        /\ Stored(req[r].user_message_obj[1])
        /\ StoredAt(req[r].user_message_obj[1]) < Len(store)

\* the id in r's response is one no earlier request and no turn stored before
\* r arrived carries: every stored turn under it was written by r or by a
\* request that arrived after r, and no other request generated the same id
FreshSessionId(r) ==
    LET sid == req[r].resp.body.session_id
    IN  /\ sid # S1
        /\ \A i \in 1..Len(store) :
            store[i].session_id = sid => \E q \in r..MaxReq : i \in TurnsOf(q)
        /\ \A q \in 1..(r - 1) : req[q].session_id # sid

\* both turns of r are stored under the id r's response carries
TurnsUnderReturnedId(r) ==
    LET sid == req[r].resp.body.session_id
    IN  /\ Stored(req[r].user_message_obj[1]) /\ req[r].user_message_obj[1].session_id = sid
        /\ Stored(req[r].ai_message_obj[1]) /\ req[r].ai_message_obj[1].session_id = sid

Succeeded(r) == req[r].kind = "chat" /\ req[r].pc = "Responded"

\* C8 as stated: a successful request without session_id gets a new id that differs
\* from every id in the store and from the ids of other requests; a request that
\* carries a session_id gets that same id back; its turns are stored under the
\* id returned.
C8_SessionIdEchoed ==
    \A r \in Requests :
        Succeeded(r) =>
            /\ req[r].body.session_id = None => FreshSessionId(r)
            /\ req[r].body.session_id # None =>
                req[r].resp.body.session_id = req[r].body.session_id[1]
            /\ TurnsUnderReturnedId(r)

\* C8, amended: a successful request without session_id, or with the empty one,
\* gets a new id that differs from every id in the store and from the ids of
\* other requests; a request that carries a non-empty session_id gets that same
\* id back; its turns are stored under the id returned.
C8_SessionIdResolved ==
    \A r \in Requests :
        Succeeded(r) =>
            /\ req[r].body.session_id \in {None, Some(EmptyStr)} => FreshSessionId(r)
            /\ req[r].body.session_id \notin {None, Some(EmptyStr)} =>
                req[r].resp.body.session_id = req[r].body.session_id[1]
            /\ TurnsUnderReturnedId(r)

\* a request sent with the empty session id has succeeded, and a later request
\* that carried the id it was given has succeeded too
C8_Witness ==
    \E r, q \in Requests :
        /\ r < q /\ Succeeded(r) /\ Succeeded(q)
        /\ req[r].body.session_id = Some(EmptyStr)
        /\ req[q].body.session_id = Some(req[r].resp.body.session_id)
        /\ req[q].resp.body.session_id = req[r].resp.body.session_id

\* number of turns of r's session in the store (unchanged since r's read while
\* r holds its context: r holds the event loop)
StoredCount(r) == Len(find(store, req[r].session_id))

TripFields(r) ==
    <<req[r].body.location, req[r].body.duration, req[r].body.budget, req[r].body.travelers>>

\* the trip entry of the claim: the four labels, 'not specified' for a text field
\* in `absent`, 1 for a traveler count in `absentCount`
ExpectedTripEntry(body, absent, absentCount) ==
    LET text(o) == IF o \in absent THEN <<"not specified">> ELSE o[1]
        count(o) == IF o \in absentCount THEN <<"1">> ELSE IntToStr(o[1])
    IN  [role |-> "system",
         content |-> <<"Trip details:", "- Location: ">> \o text(body.location)
                     \o <<"- Duration: ">> \o text(body.duration)
                     \o <<"- Budget: ">> \o text(body.budget)
                     \o <<"- Travelers: ">> \o count(body.travelers)]

\* C9 as stated: when at least one trip field is present, whatever its value, the
\* context has exactly 2 + min(5, stored_count) entries and ends with a system
\* entry rendering the four labels, 'not specified' for each absent text field
\* and 1 for an absent traveler count.
C9_TripContextWhenPresent ==
    \A r \in Requests :
        (HoldsContext(r) /\ \E i \in 1..4 : TripFields(r)[i] # None) =>
            /\ Len(req[r].messages) = 2 + Min(5, StoredCount(r))
            /\ req[r].messages[Len(req[r].messages)] =
                   ExpectedTripEntry(req[r].body, {None}, {None})

\* C9, amended: when at least one of location, duration, budget is a non-empty
\* string or travelers is a non-zero number, the context has exactly
\* 2 + min(5, stored_count) entries and ends with a system entry rendering the
\* four labels, 'not specified' for each absent or empty text field and 1 for an
\* absent or zero traveler count.
C9_TripContextWhenTruthy ==
    \A r \in Requests :
        ( /\ HoldsContext(r)
          /\ \/ \E i \in 1..3 : TripFields(r)[i] \notin {None, Some(EmptyStr)}
             \/ TripFields(r)[4] \notin {None, Some(0)} ) =>
            /\ Len(req[r].messages) = 2 + Min(5, StoredCount(r))
            /\ req[r].messages[Len(req[r].messages)] =
                   ExpectedTripEntry(req[r].body, {None, Some(EmptyStr)}, {None, Some(0)})

\* a context with the trip entry after a full window of history, one text field
\* of the request being present and empty
C9_Witness ==
    \E r \in Requests :
        /\ HoldsContext(r)
        /\ req[r].body.location = Some(<<"Paris, France">>)
        /\ req[r].body.budget = Some(EmptyStr)
        /\ StoredCount(r) > 5
        /\ Len(req[r].messages) = 7

\* C10: for a chat request with no trip field the context has exactly
\* 1 + min(5, stored_count) entries, the first being the system entry with the
\* fixed instruction text and every other one of role user or assistant.
C10_NoTripContext ==
    \A r \in Requests :
        (HoldsContext(r) /\ \A i \in 1..4 : TripFields(r)[i] = None) =>
            /\ Len(req[r].messages) = 1 + Min(5, StoredCount(r))
            /\ req[r].messages[1] =
                [role |-> "system",
                 content |-> <<"You are a helpful travel assistant. Always give unique, personalized plans.">>]
            /\ \A i \in 2..Len(req[r].messages) :
                req[r].messages[i].role \in {"user", "assistant"}

\* a context without trip entry for a session that holds more turns than the
\* window
C10_Witness ==
    \E r \in Requests :
        /\ HoldsContext(r) /\ \A i \in 1..4 : TripFields(r)[i] = None
        /\ StoredCount(r) > 5 /\ Len(req[r].messages) = 6

\* request h is a chat-history request that has been handled
HistoryHandled(h) == req[h].kind = "history" /\ req[h].pc \in {"Responded", "Failed"}

\* no turn is stored under the session id
UnknownSession(sid) == find(store, sid) = <<>>

\* the turns listed are distinct stored turns of the session, oldest first
ListsStoredTurns(turns, sid) ==
    /\ IsSortedByTimestamp(turns)
    /\ \A i \in 1..Len(turns) : Stored(turns[i]) /\ turns[i].session_id = sid
    /\ \A i, j \in 1..Len(turns) : turns[i] = turns[j] => i = j
    /\ Len(turns) = Min(HistoryLimit, Len(find(store, sid)))

\* C11 as stated: GET chat-history for a session id under which no turn was ever
\* stored returns 200 with an empty list, never an error, and creates no record;
\* for a known session it returns the stored turns oldest first. (No turn is ever
\* removed, so a session unknown now was unknown when the request was handled.)
C11_UnknownSessionNeverFails ==
    \A h \in Requests :
        HistoryHandled(h) =>
            /\ UnknownSession(req[h].session_id) =>
                req[h].resp.status = 200 /\ req[h].resp.body = <<>>
            /\ req[h].resp.status = 200 \/ UnknownSession(req[h].session_id)

\* the step is the history handler's, for request h
HistoryStep(h) == req[h].pc = "Idle" /\ req'[h].kind = "history"

\* C11, amended: GET chat-history for a session id under which no turn was ever
\* stored returns 200 with an empty list unless the store read itself raises
\* (then the generic 500 of any session, logged); it creates no record. For a
\* known session whose read returns, it lists the stored turns oldest first.
C11_UnknownSessionIsEmpty ==
    [][\A h \in Requests :
        HistoryStep(h) =>
            LET sid == req'[h].session_id
                resp == req'[h].resp
                raised == log' = Append(log, <<"Chat history error: ">> \o StoreReadError)
            IN  /\ store' = store /\ status_checks' = status_checks
                /\ UnknownSession(sid) =>
                    \/ resp.status = 200 /\ resp.body = <<>> /\ log' = log
                    \/ /\ raised /\ resp.status = 500
                       /\ resp.detail = <<"Failed to retrieve chat history">>
                /\ ~UnknownSession(sid) =>
                    \/ resp.status = 200 /\ ListsStoredTurns(resp.body, sid) /\ log' = log
                    \/ raised /\ resp.status = 500]_vars

\* one history request answered with the empty list for an unknown session, one
\* answered with the turns of a known session
C11_Witness ==
    \E h, g \in Requests :
        /\ HistoryHandled(h) /\ HistoryHandled(g)
        /\ UnknownSession(req[h].session_id)
        /\ req[h].resp.status = 200 /\ req[h].resp.body = <<>>
        /\ req[g].resp.status = 200 /\ Len(req[g].resp.body) = 4

\* the step belongs to the image handler of request r
ImageStep(r) == req'[r] # req[r] /\ req'[r].kind = "image"

\* C12: the image-generation operation is stateless: no step of it, whether the
\* request is rejected, fails or succeeds, changes the chat-turn store or the
\* status-record store, and a success response echoes the request's session_id.
C12_ImageStateless ==
    [][\A r \in Requests :
        ImageStep(r) =>
            /\ store' = store
            /\ status_checks' = status_checks
            /\ req'[r].pc = "Responded" =>
                /\ req'[r].resp.status = 200
                /\ req'[r].resp.body.session_id = req'[r].body.session_id[1]]_vars

\* one image request succeeded and one failed, with turns in the store
C12_Witness ==
    \E r, q \in Requests :
        /\ req[r].kind = "image" /\ req[r].pc = "Responded"
        /\ req[r].resp.body.session_id = S1
        /\ req[q].kind = "image" /\ req[q].pc = "Failed"
        /\ Len(store) = 4

\* C13: each chat request calls the Completion Gateway at most once. The call
\* counter never passes 1; a request leaves the gateway call either with the
\* completion or, when the call failed, as Failed, and a Failed request takes no
\* further step (no second attempt); a request that succeeded made exactly one
\* call, and a request that failed before the call made none.
C13_SingleGatewayCall ==
    [][\A r \in Requests :
        req'[r].kind = "chat" =>
            /\ req'[r].gw_calls <= 1
            /\ req[r].pc = "Failed" => req'[r] = req[r]
            /\ (req[r].pc = "InGateway" /\ req'[r] # req[r]) =>
                /\ req'[r].pc \in {"GotCompletion", "Failed"}
                /\ req'[r].pc = "Failed" => req'[r].failed_at = "InGateway"
                /\ req'[r].gw_calls = 1
            /\ req'[r].pc \in {"GotCompletion", "PersistedAssistantTurn", "Responded"} =>
                req'[r].gw_calls = 1
            /\ (req'[r].pc = "Failed" /\ req'[r].failed_at = "InGateway") =>
                req'[r].gw_calls = 1
            /\ (req'[r].pc = "Failed"
                    /\ req'[r].failed_at \in {"ReceivedRequest", "PersistedUserTurn"}) =>
                req'[r].gw_calls = 0]_vars

\* one chat request failed in the gateway after its single call, another
\* succeeded after its single call
C13_Witness ==
    \E r, q \in Requests :
        /\ req[r].kind = "chat" /\ req[r].pc = "Failed"
        /\ req[r].failed_at = "InGateway" /\ req[r].gw_calls = 1
        /\ req[q].kind = "chat" /\ req[q].pc = "Responded" /\ req[q].gw_calls = 1

\* request r has issued a store call or a gateway call and waits for its result
Waiting(r) ==
    \/ req[r].kind = "chat"
        /\ req[r].pc \in {"ReceivedRequest", "PersistedUserTurn", "InGateway", "GotCompletion"}
    \/ req[r].kind = "image" /\ req[r].pc = "InGateway"

\* request q is being handled and has not reached a terminal state
InFlight(q) ==
    /\ req[q].kind \in {"chat", "image"}
    /\ req[q].pc \notin {"Idle", "Rejected", "Responded", "Failed"}

\* C14: while one request waits on a store call or on a gateway call (chat
\* completion or image generation), any other request in flight can still take
\* its own next step: no request's blocking operation prevents another's progress.
C14_NoRequestBlocksAnother ==
    \A r, q \in Requests :
        (r # q /\ Waiting(r) /\ InFlight(q)) => ENABLED request_step(q)

\* C15: within each session, in the order in which the turns were written to the
\* store, timestamps are non-decreasing, also when several chat requests on the
\* same session run concurrently.
C15_TimestampsFollowWriteOrder ==
    \A i, j \in 1..Len(store) :
        (i < j /\ store[i].session_id = store[j].session_id) =>
            store[i].timestamp <= store[j].timestamp

\* the step stores the turn that chat request r built: its user turn on leaving
\* ReceivedRequest, its assistant turn on leaving GotCompletion
StoresTurnOf(r) ==
    /\ req[r].kind = "chat"
    /\ \/ /\ req[r].pc = "ReceivedRequest" /\ req'[r].pc = "PersistedUserTurn"
          /\ store' = Append(store, req[r].user_message_obj[1])
       \/ /\ req[r].pc = "GotCompletion" /\ req'[r].pc = "PersistedAssistantTurn"
          /\ store' = Append(store, req[r].ai_message_obj[1])

\* C16: the chat-turn store is append-only. In every step of every chat,
\* chat-history, image or status request, each turn already stored stays at its
\* place with id, session_id, message, sender and timestamp unchanged, and the
\* store either does not change at all or grows by exactly one new turn, the one
\* a chat request just built; no other operation changes the store.
C16_AppendOnly ==
    [][/\ Len(store') >= Len(store)
       /\ \A i \in 1..Len(store) : store'[i] = store[i]
       /\ store' # store =>
            /\ Len(store') = Len(store) + 1
            /\ \E r \in Requests : StoresTurnOf(r)
            /\ \A i \in 1..Len(store) : store[i].id # store'[Len(store')].id
       /\ \A r \in Requests :
            (req'[r] # req[r] /\ req'[r].kind \in {"history", "image", "status"}) =>
                store' = store]_vars

\* a chat request has stored both its turns behind the four turns the store began
\* with, and a chat-history request was answered as well
C16_Witness ==
    \E r, h \in Requests :
        /\ req[r].kind = "chat" /\ req[r].pc = "Responded"
        /\ req[h].kind = "history" /\ req[h].pc = "Responded"
        /\ Len(store) = 6
        /\ SubSeq(store, 1, 4) = Preload(4)
        /\ store[5] = req[r].user_message_obj[1]
        /\ store[6] = req[r].ai_message_obj[1]

\* a and b are two chat requests on the same session
SameSessionPair(a, b) ==
    /\ a # b /\ req[a].kind = "chat" /\ req[b].kind = "chat"
    /\ req[a].pc # "Rejected" /\ req[b].pc # "Rejected"
    /\ req[a].session_id = req[b].session_id

\* the user turn of chat request r is in the store
UserTurnStored(r) == req[r].user_message_obj # None /\ Stored(req[r].user_message_obj[1])

\* the context held by a contains the user turn of b
ContextHasUserTurnOf(a, b) ==
    /\ req[b].user_message_obj # None
    /\ \E i \in 1..Len(req[a].history) : req[a].history[i] = req[b].user_message_obj[1]

\* C17: two concurrent chat requests a and b on the same session_id are not
\* serialized. Whenever both await a store call and the event loop is free, the
\* store step of either may come next: with both user turns unwritten either
\* stored order can follow; with a's user turn stored and b's not, a's context
\* read and b's write can go in either order, so a's context may or may not
\* contain b's user turn; and b's user turn can be written between a's user turn
\* and a's assistant turn.
C17_NotSerialized ==
    \A a, b \in Requests :
        (SameSessionPair(a, b) /\ running = 0 /\ req[b].pc = "ReceivedRequest") =>
            /\ req[a].pc = "ReceivedRequest" =>
                ENABLED chat_insert_user(a) /\ ENABLED chat_insert_user(b)
            /\ req[a].pc = "PersistedUserTurn" =>
                ENABLED chat_read_history(a) /\ ENABLED chat_insert_user(b)
            /\ req[a].pc = "GotCompletion" =>
                ENABLED chat_insert_ai(a) /\ ENABLED chat_insert_user(b)

\* a arrived before b on the same session, yet b's user turn is stored first,
\* b's assistant turn does not directly follow b's user turn, and the context a
\* assembled contains b's user turn
C17_Witness ==
    \E a, b \in Requests :
        /\ SameSessionPair(a, b) /\ a < b
        /\ UserTurnStored(a) /\ UserTurnStored(b)
        /\ StoredAt(req[b].user_message_obj[1]) < StoredAt(req[a].user_message_obj[1])
        /\ req[b].ai_message_obj # None /\ Stored(req[b].ai_message_obj[1])
        /\ StoredAt(req[b].ai_message_obj[1]) # StoredAt(req[b].user_message_obj[1]) + 1
        /\ HoldsContext(a) /\ ContextHasUserTurnOf(a, b)

\* C18: provided each store call and the gateway call eventually returns or
\* raises, every chat request the handler received eventually reaches a terminal
\* state, Responded or Failed, and exactly one: a request in a terminal state
\* takes no further step. A request becomes Failed only by a step of its own
\* that leaves every other request as it was, so a failed request prevents no
\* later or concurrent request from reaching Responded.
C18_Terminates ==
    /\ \A r \in Requests :
        (req[r].kind = "chat" /\ req[r].pc = "ReceivedRequest")
            ~> (req[r].pc \in {"Responded", "Failed"})
    /\ [][\A r \in Requests :
            req'[r].kind = "chat" =>
                /\ req[r].pc \in {"Responded", "Failed"} => req'[r] = req[r]
                /\ (req'[r].pc = "Failed" /\ req[r].pc # "Failed") =>
                    /\ store' = store
                    /\ running' = 0
                    /\ \A q \in Requests : q # r => req'[q] = req[q]]_vars

\* a chat request failed and a later chat request on the same session was
\* answered
C18_Witness ==
    \E r, q \in Requests :
        /\ r < q /\ SameSessionPair(r, q)
        /\ req[r].pc = "Failed" /\ req[q].pc = "Responded"

\* the session ids under which the collection holds turns, and one it never holds
SessionsOf(coll) == { coll[i].session_id : i \in 1..Len(coll) } \cup {<<"nonexistent">>}

\* the sequence has at most n turns, all of session sid, in non-decreasing
\* timestamp order
BoundedSortedOwn(turns, sid, n) ==
    /\ Len(turns) <= n
    /\ IsSortedByTimestamp(turns)
    /\ \A i \in 1..Len(turns) : turns[i].session_id = sid

\* C19: recent(session_id, N), the sequence fetched for context assembly, has at
\* most N turns, in non-decreasing timestamp order, all of the requested
\* session; the same holds for chat-history with bound 100. It is stated of the
\* context and of the history every request receives. A step of a chat request
\* on one session changes neither the context nor the history of any other
\* session.
C19_RecentBoundedSortedIsolated ==
    [][\A r \in Requests :
        /\ (req'[r].kind = "chat" /\ req'[r].pc = "ContextAssembled") =>
            BoundedSortedOwn(req'[r].history, req'[r].session_id, ContextLimit)
        /\ (req'[r].kind = "history" /\ req'[r].resp.status = 200) =>
            BoundedSortedOwn(req'[r].resp.body, req'[r].session_id, HistoryLimit)
        /\ (req'[r].kind = "chat" /\ req'[r] # req[r]) =>
            \A sid \in SessionsOf(store') :
                sid # req'[r].session_id =>
                    /\ recent(store', sid) = recent(store, sid)
                    /\ all_turns(store', sid) = all_turns(store, sid)]_vars

\* the store holds more than 100 turns of one session and turns of another; a
\* chat request on the long session holds a context of 5 turns, and the history
\* of that session is cut at 100
C19_Witness ==
    \E r \in Requests :
        /\ req[r].kind = "chat" /\ req[r].pc = "ContextAssembled"
        /\ req[r].session_id = S1
        /\ Len(find(store, S1)) > HistoryLimit
        /\ Len(req[r].history) = ContextLimit
        /\ Len(all_turns(store, S1)) = HistoryLimit
        /\ Len(store) > Len(find(store, S1))

\* the number of stored turns of the session sent by the sender
TurnCount(sid, sender) ==
    Cardinality({ i \in 1..Len(store) :
                    store[i].session_id = sid /\ store[i].sender = sender })

\* the requests that built the turn
BuildersOf(turn) == { r \in Requests : req[r].ai_message_obj = Some(turn) }

\* C20: in every reachable state and for every session, the stored assistant
\* turns are at most as many as the stored user turns; every stored assistant
\* turn belongs to a request whose user turn was stored earlier in the same
\* session (a turn the store began with directly follows the user turn it
\* answers); and a success response carries the message of the assistant turn
\* that request stored.
C20_AssistantFollowsUser ==
    /\ \A sid \in SessionsOf(store) : TurnCount(sid, "assistant") <= TurnCount(sid, "user")
    /\ \A k \in 1..Len(store) :
        store[k].sender = "assistant" =>
            IF BuildersOf(store[k]) = {}
            THEN /\ k > 1 /\ store[k - 1].sender = "user"
                 /\ store[k - 1].session_id = store[k].session_id
            ELSE \A r \in BuildersOf(store[k]) :
                    /\ UserTurnStored(r)
                    /\ StoredAt(req[r].user_message_obj[1]) < k
                    /\ req[r].user_message_obj[1].session_id = store[k].session_id
                    /\ req[r].user_message_obj[1].sender = "user"
    /\ \A r \in Requests :
        (req[r].kind = "chat" /\ req[r].pc = "Responded") =>
            /\ req[r].ai_message_obj # None /\ Stored(req[r].ai_message_obj[1])
            /\ req[r].ai_message_obj[1].sender = "assistant"
            /\ req[r].resp.body.message = req[r].ai_message_obj[1].message
            /\ req[r].resp.body.session_id = req[r].ai_message_obj[1].session_id

\* two chat requests on one session were answered, each with the message of the
\* assistant turn it stored, and one request's user turn lies between the other's
\* user turn and assistant turn
C20_Witness ==
    \E r, q \in Requests :
        /\ SameSessionPair(r, q)
        /\ req[r].pc = "Responded" /\ req[q].pc = "Responded"
        /\ req[r].resp.body.message = req[r].ai_message_obj[1].message
        /\ StoredAt(req[r].user_message_obj[1]) < StoredAt(req[q].user_message_obj[1])
        /\ StoredAt(req[q].user_message_obj[1]) < StoredAt(req[r].ai_message_obj[1])
        /\ TurnCount(req[r].session_id, "assistant") = TurnCount(req[r].session_id, "user")

====
